---------------------------- MODULE Spec2Model ----------------------------
(***************************************************************************)
(* Model of the multi-session console of src/TEST.py (ShellApp).           *)
(*                                                                         *)
(* Threads: one acceptor (listen_for_clients), one receive loop per        *)
(* accepted connection (receive_output) and the single UI event loop,      *)
(* which runs the message handlers on_list_view_selected and               *)
(* on_input_submitted and the callbacks posted with call_from_thread.      *)
(* call_from_thread blocks the posting thread until the UI loop has run    *)
(* the callback.                                                           *)
(*                                                                         *)
(* A ClientConnection object is named by the order number of its accept;   *)
(* obj[c] holds its fields.  Bytes and characters are integers.            *)
(***************************************************************************)
EXTENDS Integers, Sequences, FiniteSets, TLC

(* Bounds of the model: sessions accepted, chunks received, events         *)
(* submitted, chunks and events together, and the lines that the script   *)
(* TCP_server.py reads.                                                    *)
MaxClients == 2
MaxChunks == 2
MaxDispatch == 1
MaxEvents == 2
MaxLines == 2

(* Bound of the model of strong_packer_gui.py: the build threads that are  *)
(* alive together.                                                         *)
MaxWorkers == 2

(* The line terminator b"\n" and the value of an unset reference. *)
NL == 10
None == 0

(* Remote endpoints (ip, port) of the peers that connect, in the order of  *)
(* their first use.                                                        *)
Endpoints == << <<"10.0.0.5", 4444>>, <<"10.0.0.5", 4445>> >>
Addrs == {Endpoints[k] : k \in DOMAIN Endpoints}

(* The k-th chunk that any recv returns: a letter that tells it from the   *)
(* other chunks ("a" is 97), then 255, a byte that no UTF-8 sequence holds. *)
Chunk(k) == <<96 + k, 255>>

(* The texts the operator submits: "w", " w", "w " and " " (32 is the      *)
(* space, 119 is "w").                                                     *)
Texts == {<<119>>, <<32, 119>>, <<119, 32>>, <<32>>}

VARIABLES
    clients,        \* self.clients: list of ClientConnection objects
    active_client,  \* self.active_client: an object or None
    obj,            \* fields of each ClientConnection: addr, conn_open, log_open
    files,          \* file system: file name -> contents (bytes)
    list_view,      \* items of the ListView #client_list (labels)
    shell_log,      \* lines of the Log #shell_log
    cmd_input,      \* the Input #cmd_input: "" (cleared) or "text" (a value)
    ui_queue,       \* callbacks posted with call_from_thread, not yet run
    acc_pc,         \* position of the acceptor thread
    pc,             \* position of each receive loop
    data,           \* local variable data of each receive loop
    received,       \* history: chunks returned by recv on each connection
    sent,           \* history: the sends each connection took: the event's
                    \* text and the bytes passed to send
    ndispatch,      \* history: number of Input.Submitted events handled
    closed_bound,   \* history: the bound session closed after it was selected
    log_closes,     \* history: number of log_file.close() calls of each client
    ui_pc,          \* position of the UI thread: at "loop" (the event loop),
                    \* "send" (inside conn.send, with the event's text) or
                    \* "exited" (run() has returned and the process is gone)
    srv_main,       \* TCP_server.py: position of the main thread
    srv_proc,       \* TCP_server.py: "running", "exited" (os._exit) or "crashed"
    srv_conn,       \* TCP_server.py: conn: "none", "open" or "closed"
    srv_stdout,     \* TCP_server.py: what was printed
    srv_received,   \* TCP_server.py, history: chunks returned by conn.recv
    srv_sent,       \* TCP_server.py, history: the lines read by input() and
                    \* the bytes passed to conn.send
    root,           \* strong_packer_gui.py: "new" (before MainApplication()),
                    \* "alive" (mainloop) or "destroyed" (the process is gone)
    config_file,    \* CONFIG_FILE: whether it exists and the JSON object in it
    config,         \* self.config: the attributes of the BuildConfig object
    script_var,     \* the StringVar of the script entry (a path)
    output_var,     \* the StringVar of the output directory entry
    exe_name_var,   \* the StringVar of the executable name entry
    data_text,      \* the lines of the Text widget of the data files
    follow_imports_var,   \* the BooleanVar of "Follow Imports"
    nofollow_imports_var, \* the BooleanVar of "No Follow Imports"
    is_building,    \* self.is_building
    build_btn,      \* state of the Build button: "normal" or "disabled"
    stop_btn,       \* state of the Stop button
    status_var,     \* the status line
    messagebox,     \* the last dialog that a handler of the main thread showed
    workers         \* the build threads that have not ended, in the order
                    \* of their start: position, child process, command,
                    \* outcome, and whether Stop was pressed

(* The state of the ShellApp of TEST.py and of the script TCP_server.py. *)
app_vars == <<clients, active_client, obj, files, list_view, shell_log,
              cmd_input, ui_queue, acc_pc, pc, data, received, sent, ndispatch,
              closed_bound, log_closes, ui_pc>>
srv_vars == <<srv_main, srv_proc, srv_conn, srv_stdout, srv_received, srv_sent>>

(* The state of the MainApplication of strong_packer_gui.py. *)
gui_vars == <<root, config_file, config, script_var, output_var, exe_name_var,
              data_text, follow_imports_var, nofollow_imports_var, is_building,
              build_btn, stop_btn, status_var, messagebox, workers>>

vars == <<app_vars, srv_vars, gui_vars>>

Ids == 1..MaxClients

----------------------------------------------------------------------------
(* Pure functions. *)

RECURSIVE Concat(_)
(* b"".join(chunks) *)
Concat(chunks) ==
    IF chunks = <<>> THEN <<>> ELSE Head(chunks) \o Concat(Tail(chunks))

(* bytes.decode(errors="ignore"): a byte that starts no valid UTF-8 sequence *)
(* is dropped; an ASCII byte is the character of the same code.              *)
Decode(bytes) == SelectSeq(bytes, LAMBDA b : b < 128)

(* UTF-8 of one character below U+0800. *)
EncodeChar(ch) ==
    IF ch < 128 THEN <<ch>> ELSE <<192 + (ch \div 64), 128 + (ch % 64)>>

RECURSIVE Encode(_)
(* str.encode() *)
Encode(text) ==
    IF text = <<>> THEN <<>> ELSE EncodeChar(Head(text)) \o Encode(Tail(text))

(* str.isspace() of one character (the whitespace below U+0100). *)
IsSpace(ch) == ch \in {9, 10, 11, 12, 13, 28, 29, 30, 31, 32, 133, 160}

RECURSIVE LStrip(_)
LStrip(text) ==
    IF text # <<>> /\ IsSpace(Head(text)) THEN LStrip(Tail(text)) ELSE text

RECURSIVE RStrip(_)
RStrip(text) ==
    IF text # <<>> /\ IsSpace(text[Len(text)])
    THEN RStrip(SubSeq(text, 1, Len(text) - 1))
    ELSE text

(* A strip that forgets the trailing whitespace. *)
Strip_leading_only(text) == LStrip(text)

(* str.strip() *)
Strip(text) == RStrip(LStrip(text))

(* f"{addr[0]}_{addr[1]}.txt" *)
LogName(addr) == <<addr[1], "_", addr[2], ".txt">>

(* f"{client.addr[0]}:{client.addr[1]}" *)
Label(addr) == <<addr[1], ":", addr[2]>>

(* The file system holds the log files only. *)
FileNames == {LogName(a) : a \in Addrs}
NoFile == [exists |-> FALSE, bytes |-> <<>>]

(* Lines written to the Log widget; src is the session the text came from. *)
OutLine(c, bytes) == [kind |-> "out", src |-> c, text |-> Decode(bytes), ip |-> ""]
Banner(c) == [kind |-> "connected", src |-> c, text |-> <<>>, ip |-> obj[c].addr[1]]
ErrorLine == [kind |-> "error", src |-> None, text |-> <<>>, ip |-> ""]

(* Positions of the UI thread. *)
AtLoop == [at |-> "loop", text |-> <<>>]
AtSend(text) == [at |-> "send", text |-> text]
AtExit == [at |-> "exited", text |-> <<>>]

----------------------------------------------------------------------------
(* strong_packer_gui.py: values and pure functions.  A path is the pair of *)
(* its stem and its suffix; a line of text is a sequence of characters.    *)

EmptyPath == <<"", "">>

(* The files that exist. *)
Fs == {<<"app", ".py">>, <<"tool", ".PY">>, <<"notes", ".txt">>}

(* str.lower() of a suffix. *)
Lower(suffix) == IF suffix = ".PY" THEN ".py" ELSE suffix

(* BuildConfig(): the attributes that the model follows (the other flags   *)
(* and lists are set and read the same way).                               *)
BuildConfig ==
    [script_path |-> EmptyPath, output_dir |-> "cwd", exe_name |-> "app",
     data_files |-> <<>>, follow_imports |-> TRUE, nofollow_imports |-> FALSE]

(* The attributes that hasattr finds on the class and not in __dict__. *)
ClassAttrs == {"to_dict", "from_dict"}

(* BuildConfig.to_dict: the items of self.__dict__. *)
to_dict(cfg) == cfg

(* BuildConfig.from_dict: setattr for every key that hasattr finds. *)
from_dict(cfg, d) ==
    [k \in DOMAIN cfg \cup (DOMAIN d \cap ClassAttrs) |->
        IF k \in DOMAIN d THEN d[k] ELSE cfg[k]]

(* The contents CONFIG_FILE may have when the application starts: no file, *)
(* a file with both import flags set, a file written by another version,   *)
(* a file with a key that is the name of a method.                         *)
NoConfigFile == [exists |-> FALSE, data |-> to_dict(BuildConfig)]
ConfigFiles ==
    {NoConfigFile,
     [exists |-> TRUE,
      data |-> [follow_imports |-> TRUE, nofollow_imports |-> TRUE]],
     [exists |-> TRUE,
      data |-> [follow_imports |-> FALSE, nofollow_imports |-> TRUE,
                theme |-> "dark"]],
     [exists |-> TRUE, data |-> [exe_name |-> "tool", to_dict |-> "v1"]]}

(* MainApplication.load_config *)
load_config(cfg, file) == IF file.exists THEN from_dict(cfg, file.data) ELSE cfg

(* What the operator may have put in the entries of the Basic tab when a   *)
(* handler reads them: the lines "a=b", "ab" and " " are <<97, 61, 98>>,   *)
(* <<97, 98>> and <<32>>.                                                  *)
Form(script, output, exe_name, lines) ==
    [script |-> script, output |-> output, exe_name |-> exe_name, lines |-> lines]
Forms ==
    {Form(<<"tool", ".PY">>, "dist", "app", << <<97, 61, 98>>, <<32>> >>),
     Form(EmptyPath, "dist", "app", <<>>),
     Form(<<"gone", ".py">>, "dist", "app", <<>>),
     Form(<<"notes", ".txt">>, "dist", "app", <<>>),
     Form(<<"app", ".py">>, "", "app", <<>>),
     Form(<<"app", ".py">>, "dist", "", <<>>),
     Form(<<"app", ".py">>, "dist", "app", << <<97, 98>> >>)}

(* The widget that root.focus_get() returns, by the components of its Tk   *)
(* path name (str(caller) joins them with dots), or None.                  *)
Widgets ==
    {<<"!notebook", "!frame2", "!labelframe2", "!checkbutton">>,
     <<"!notebook", "!frame2", "!labelframe2", "!checkbutton2">>,
     <<"None">>}

(* "nofollow" in str(caller): the names Tk gives are "!" and the class of  *)
(* the widget and a number, so a component holds the word only if it is it. *)
HasNofollow(caller) == \E k \in DOMAIN caller : caller[k] = "nofollow"

(* [line.strip() for line in data_content.splitlines() if line.strip()] *)
DataFiles(lines) ==
    SelectSeq([k \in DOMAIN lines |-> Strip(lines[k])], LAMBDA line : line # <<>>)

(* MainApplication._validate_build_config: the message it returns. *)
validate_build_config(cfg) ==
    IF cfg.script_path = EmptyPath THEN "Please select a Python script"
    ELSE IF cfg.script_path \notin Fs THEN "Script file not found"
    ELSE IF Lower(cfg.script_path[2]) # ".py"
        THEN "Selected file is not a Python script (.py)"
    ELSE IF cfg.output_dir = "" THEN "Please specify an output directory"
    ELSE IF cfg.exe_name = "" THEN "Please specify an executable name"
    ELSE IF \E k \in DOMAIN cfg.data_files :
                \A j \in DOMAIN cfg.data_files[k] : cfg.data_files[k][j] # 61
        THEN "Invalid data file specification"
    ELSE "Configuration valid"

(* NuitkaRunner.build_command: the import flags of the command. *)
build_command(cfg) ==
    <<"nuitka">>
    \o (IF cfg.follow_imports THEN <<"--follow-imports">> ELSE <<>>)
    \o (IF cfg.nofollow_imports THEN <<"--nofollow-imports">> ELSE <<>>)

(* A build thread that has just been started. *)
NewWorker ==
    [pc |-> "start", child |-> "none", cmd |-> <<>>, outcome |-> "",
     stopped |-> FALSE]

----------------------------------------------------------------------------
Init ==
    /\ clients = <<>>
    /\ active_client = None
    /\ obj = <<>>
    /\ files = [n \in FileNames |-> NoFile]
    /\ list_view = <<>>
    /\ shell_log = <<>>
    /\ cmd_input = ""
    /\ ui_queue = <<>>
    /\ acc_pc = "bind"
    /\ pc = <<>>
    /\ data = <<>>
    /\ received = <<>>
    /\ sent = <<>>
    /\ ndispatch = 0
    /\ closed_bound = FALSE
    /\ log_closes = <<>>
    /\ ui_pc = AtLoop
    /\ srv_main = "bind"
    /\ srv_proc = "running"
    /\ srv_conn = "none"
    /\ srv_stdout = <<>>
    /\ srv_received = <<>>
    /\ srv_sent = <<>>
    /\ root = "new"
    /\ config_file = NoConfigFile
    /\ config = BuildConfig
    /\ script_var = EmptyPath
    /\ output_var = ""
    /\ exe_name_var = ""
    /\ data_text = <<>>
    /\ follow_imports_var = FALSE
    /\ nofollow_imports_var = FALSE
    /\ is_building = FALSE
    /\ build_btn = "normal"
    /\ stop_btn = "disabled"
    /\ status_var = ""
    /\ messagebox = ""
    /\ workers = <<>>

----------------------------------------------------------------------------
(* The process runs until ShellApp().run() returns: the threads are daemon *)
(* threads and end with it.  The UI thread runs handlers and callbacks     *)
(* when it is in its event loop.                                           *)
Running == ui_pc.at # "exited"
UiLoop == ui_pc.at = "loop"

----------------------------------------------------------------------------
(* The acceptor thread: listen_for_clients. *)

(* What an acceptor step leaves alone when it only moves the thread. *)
AcceptorOnly ==
    UNCHANGED <<clients, active_client, obj, files, list_view, shell_log,
                cmd_input, ui_queue, pc, data, received, sent, ndispatch,
                closed_bound, log_closes>>

(* on_mount starts the thread; socket(), setsockopt(), s.bind(), s.listen(5). *)
Bind ==
    /\ Running
    /\ acc_pc = "bind"
    /\ acc_pc' = "accept"
    /\ AcceptorOnly
    /\ UNCHANGED <<ui_pc, srv_vars, gui_vars>>

(* s.bind() raises (the port is taken): nothing catches it, the thread of  *)
(* listen_for_clients ends and the application goes on without it.        *)
BindFail ==
    /\ Running
    /\ acc_pc = "bind"
    /\ acc_pc' = "bind_failed"
    /\ AcceptorOnly
    /\ UNCHANGED <<ui_pc, srv_vars, gui_vars>>

(* s.accept() raises: nothing catches it inside the while loop, the thread *)
(* ends.                                                                   *)
AcceptFail ==
    /\ Running
    /\ acc_pc = "accept"
    /\ acc_pc' = "accept_failed"
    /\ AcceptorOnly
    /\ UNCHANGED <<ui_pc, srv_vars, gui_vars>>

(* TCP gives a new connection an endpoint that no connection still held     *)
(* open by the server has.                                                  *)
AddrFree(a) == \A c \in DOMAIN obj : obj[c].addr = a => ~obj[c].conn_open

(* The endpoints seen so far, and the next one that is new (if any). *)
UsedAddrs == {obj[c].addr : c \in DOMAIN obj}
NewAddrs == {Endpoints[k] : k \in {Cardinality(UsedAddrs) + 1} \cap DOMAIN Endpoints}

(* ClientConnection(conn, addr): open(name, "ab") creates the file when it  *)
(* is absent and keeps its contents when it is there.                       *)
ClientConnection(a) == [addr |-> a, conn_open |-> TRUE, log_open |-> TRUE]

(* An accept that puts the new client at the head of self.clients. *)
Accept_insert_front(a) ==
    /\ Running
    /\ acc_pc = "accept"
    /\ Len(obj) < MaxClients
    /\ AddrFree(a)
    /\ a \in UsedAddrs \cup NewAddrs
    /\ LET c == Len(obj) + 1 IN
        /\ obj' = Append(obj, ClientConnection(a))
        /\ files' = [files EXCEPT ![LogName(a)].exists = TRUE]
        /\ clients' = <<c>> \o clients
        /\ ui_queue' = Append(ui_queue, [kind |-> "add_client", client |-> c])
        /\ pc' = Append(pc, "new")
        /\ data' = Append(data, <<>>)
        /\ received' = Append(received, <<>>)
        /\ sent' = Append(sent, <<>>)
        /\ log_closes' = Append(log_closes, 0)
    /\ acc_pc' = "wait_ui"
    /\ UNCHANGED <<active_client, list_view, shell_log, cmd_input, ndispatch,
                   closed_bound>>
    /\ UNCHANGED <<ui_pc, srv_vars, gui_vars>>

(* An accept that, for an endpoint it has seen, reopens the connection and *)
(* the log of the client object it already has and restarts its loop.      *)
Accept_reuse(a) ==
    /\ Running
    /\ acc_pc = "accept"
    /\ AddrFree(a)
    /\ a \in UsedAddrs \cup NewAddrs
    /\ IF \E c \in DOMAIN obj : obj[c].addr = a /\ pc[c] = "done"
       THEN /\ \E c \in DOMAIN obj :
                /\ obj[c].addr = a
                /\ pc[c] = "done"
                /\ obj' = [obj EXCEPT ![c] = ClientConnection(a)]
                /\ pc' = [pc EXCEPT ![c] = "recv"]
            /\ UNCHANGED <<clients, files, ui_queue, acc_pc, data, received,
                           sent, log_closes>>
       ELSE /\ Len(obj) < MaxClients
            /\ LET c == Len(obj) + 1 IN
                /\ obj' = Append(obj, ClientConnection(a))
                /\ files' = [files EXCEPT ![LogName(a)].exists = TRUE]
                /\ clients' = Append(clients, c)
                /\ ui_queue' = Append(ui_queue,
                                      [kind |-> "add_client", client |-> c])
                /\ pc' = Append(pc, "new")
                /\ data' = Append(data, <<>>)
                /\ received' = Append(received, <<>>)
                /\ sent' = Append(sent, <<>>)
                /\ log_closes' = Append(log_closes, 0)
            /\ acc_pc' = "wait_ui"
    /\ UNCHANGED <<active_client, list_view, shell_log, cmd_input, ndispatch,
                   closed_bound>>
    /\ UNCHANGED <<ui_pc, srv_vars, gui_vars>>

(* s.accept(); ClientConnection(conn, addr); self.clients.append(client);   *)
(* call_from_thread(self.add_client_to_ui, client) posts the callback and   *)
(* waits.                                                                   *)
Accept(a) ==
    /\ Running
    /\ acc_pc = "accept"
    /\ Len(obj) < MaxClients
    /\ AddrFree(a)
    /\ a \in UsedAddrs \cup NewAddrs
    /\ LET c == Len(obj) + 1 IN
        /\ obj' = Append(obj, ClientConnection(a))
        /\ files' = [files EXCEPT ![LogName(a)].exists = TRUE]
        /\ clients' = Append(clients, c)
        /\ ui_queue' = Append(ui_queue, [kind |-> "add_client", client |-> c])
        /\ pc' = Append(pc, "new")
        /\ data' = Append(data, <<>>)
        /\ received' = Append(received, <<>>)
        /\ sent' = Append(sent, <<>>)
        /\ log_closes' = Append(log_closes, 0)
    /\ acc_pc' = "wait_ui"
    /\ UNCHANGED <<active_client, list_view, shell_log, cmd_input, ndispatch,
                   closed_bound>>
    /\ UNCHANGED <<ui_pc, srv_vars, gui_vars>>

(* threading.Thread(target=self.receive_output, args=(client,)).start() *)
StartThread ==
    /\ Running
    /\ acc_pc = "start"
    /\ pc' = [pc EXCEPT ![Len(obj)] = "recv"]
    /\ acc_pc' = "accept"
    /\ UNCHANGED <<clients, active_client, obj, files, list_view, shell_log,
                   cmd_input, ui_queue, data, received, sent, ndispatch,
                   closed_bound, log_closes>>
    /\ UNCHANGED <<ui_pc, srv_vars, gui_vars>>

----------------------------------------------------------------------------
(* The receive loop of client c: receive_output. *)

(* The number of chunks received so far, on all connections. *)
NumChunks == Len(Concat(received))

(* The chunks and the Input.Submitted events so far stay within the bound. *)
EventsLeft == NumChunks + ndispatch < MaxEvents

(* A receive loop that writes to the Log widget itself, from its own       *)
(* thread.                                                                 *)
Recv_direct_write(c) ==
    /\ Running
    /\ pc[c] = "recv"
    /\ NumChunks < MaxChunks
    /\ EventsLeft
    /\ received' = [received EXCEPT ![c] = Append(@, Chunk(NumChunks + 1))]
    /\ data' = [data EXCEPT ![c] = Chunk(NumChunks + 1)]
    /\ IF c = active_client
       THEN /\ shell_log' = Append(shell_log, OutLine(c, Chunk(NumChunks + 1)))
            /\ pc' = [pc EXCEPT ![c] = "log"]
       ELSE UNCHANGED <<shell_log, pc>>
    /\ UNCHANGED <<clients, active_client, obj, files, list_view, ui_queue,
                   cmd_input, acc_pc, sent, ndispatch, closed_bound, log_closes>>
    /\ UNCHANGED <<ui_pc, srv_vars, gui_vars>>

(* data = client.conn.recv(6048) returns a chunk; the test                  *)
(* client == self.active_client; when it holds, call_from_thread posts the  *)
(* write to the Log and waits, otherwise the loop reads again.              *)
Recv(c) ==
    /\ Running
    /\ pc[c] = "recv"
    /\ NumChunks < MaxChunks
    /\ EventsLeft
    /\ received' = [received EXCEPT ![c] = Append(@, Chunk(NumChunks + 1))]
    /\ data' = [data EXCEPT ![c] = Chunk(NumChunks + 1)]
    /\ IF c = active_client
       THEN /\ ui_queue' = Append(ui_queue, [kind |-> "write", client |-> c])
            /\ pc' = [pc EXCEPT ![c] = "wait_ui"]
       ELSE UNCHANGED <<ui_queue, pc>>
    /\ UNCHANGED <<clients, active_client, obj, files, list_view, shell_log,
                   cmd_input, acc_pc, sent, ndispatch, closed_bound, log_closes>>
    /\ UNCHANGED <<ui_pc, srv_vars, gui_vars>>

(* An except clause without the break: the loop goes on. *)
Teardown_no_break(c) ==
    /\ obj' = [obj EXCEPT ![c].conn_open = FALSE, ![c].log_open = FALSE]
    /\ pc' = [pc EXCEPT ![c] = "recv"]
    /\ closed_bound' = (closed_bound \/ c = active_client)
    /\ log_closes' = [log_closes EXCEPT ![c] = @ + 1]

(* except: client.conn.close(); client.log_file.close(); break *)
Teardown(c) ==
    /\ obj' = [obj EXCEPT ![c].conn_open = FALSE, ![c].log_open = FALSE]
    /\ pc' = [pc EXCEPT ![c] = "done"]
    /\ closed_bound' = (closed_bound \/ c = active_client)
    /\ log_closes' = [log_closes EXCEPT ![c] = @ + 1]

(* The place of client c in self.clients. *)
IndexOf(c) == CHOOSE k \in DOMAIN clients : clients[k] = c

(* seq without its k-th element. *)
RemoveAt(seq, k) == SubSeq(seq, 1, k - 1) \o SubSeq(seq, k + 1, Len(seq))

(* A failed read that also takes the client off the registry and off the *)
(* list, and leaves the selection alone.                                  *)
RecvFail_deregister(c) ==
    /\ Running
    /\ pc[c] = "recv"
    /\ Teardown(c)
    /\ clients' = RemoveAt(clients, IndexOf(c))
    /\ list_view' = RemoveAt(list_view, IndexOf(c))
    /\ UNCHANGED <<active_client, files, shell_log, cmd_input, ui_queue,
                   acc_pc, data, received, sent, ndispatch>>
    /\ UNCHANGED <<ui_pc, srv_vars, gui_vars>>

(* A failed read after which the thread reads again. *)
RecvFail_retry(c) ==
    /\ Running
    /\ pc[c] = "recv"
    /\ obj[c].conn_open
    /\ obj' = [obj EXCEPT ![c].conn_open = FALSE, ![c].log_open = FALSE]
    /\ closed_bound' = (closed_bound \/ c = active_client)
    /\ log_closes' = [log_closes EXCEPT ![c] = @ + 1]
    /\ UNCHANGED <<clients, active_client, files, list_view, shell_log,
                   cmd_input, ui_queue, acc_pc, pc, data, received, sent,
                   ndispatch>>
    /\ UNCHANGED <<ui_pc, srv_vars, gui_vars>>

(* recv returns b"" (raise ConnectionError) or raises. *)
RecvFail(c) ==
    /\ Running
    /\ pc[c] = "recv"
    /\ Teardown(c)
    /\ UNCHANGED <<clients, active_client, files, list_view, shell_log,
                   cmd_input, ui_queue, acc_pc, data, received, sent, ndispatch>>
    /\ UNCHANGED <<ui_pc, srv_vars, gui_vars>>

(* A log write at the start of the file. *)
LogWrite_prepend(c) ==
    /\ Running
    /\ pc[c] = "log"
    /\ files' = [files EXCEPT
                   ![LogName(obj[c].addr)].bytes = data[c] \o <<NL>> \o @]
    /\ pc' = [pc EXCEPT ![c] = "recv"]
    /\ UNCHANGED <<clients, active_client, obj, list_view, shell_log, cmd_input,
                   ui_queue, acc_pc, data, received, sent, ndispatch,
                   closed_bound, log_closes>>
    /\ UNCHANGED <<ui_pc, srv_vars, gui_vars>>

(* client.log_file.write(data); write(b"\n"); flush() *)
LogWrite(c) ==
    /\ Running
    /\ pc[c] = "log"
    /\ files' = [files EXCEPT ![LogName(obj[c].addr)].bytes = @ \o data[c] \o <<NL>>]
    /\ pc' = [pc EXCEPT ![c] = "recv"]
    /\ UNCHANGED <<clients, active_client, obj, list_view, shell_log, cmd_input,
                   ui_queue, acc_pc, data, received, sent, ndispatch,
                   closed_bound, log_closes>>
    /\ UNCHANGED <<ui_pc, srv_vars, gui_vars>>

(* A write to the log file raises: the same except clause. *)
LogWriteFail(c) ==
    /\ Running
    /\ pc[c] = "log"
    /\ Teardown(c)
    /\ UNCHANGED <<clients, active_client, files, list_view, shell_log,
                   cmd_input, ui_queue, acc_pc, data, received, sent, ndispatch>>
    /\ UNCHANGED <<ui_pc, srv_vars, gui_vars>>

----------------------------------------------------------------------------
(* The UI event loop. *)

(* An add_client_to_ui that puts the new item at the head of the list. *)
AddClientToUi_front ==
    /\ UiLoop
    /\ ui_queue # <<>>
    /\ Head(ui_queue).kind = "add_client"
    /\ list_view' = <<Label(obj[Head(ui_queue).client].addr)>> \o list_view
    /\ ui_queue' = Tail(ui_queue)
    /\ acc_pc' = "start"
    /\ UNCHANGED <<clients, active_client, obj, files, shell_log, cmd_input, pc,
                   data, received, sent, ndispatch, closed_bound, log_closes>>
    /\ UNCHANGED <<ui_pc, srv_vars, gui_vars>>

(* add_client_to_ui(client), run for the acceptor. *)
AddClientToUi ==
    /\ UiLoop
    /\ ui_queue # <<>>
    /\ Head(ui_queue).kind = "add_client"
    /\ list_view' = Append(list_view, Label(obj[Head(ui_queue).client].addr))
    /\ ui_queue' = Tail(ui_queue)
    /\ acc_pc' = "start"
    /\ UNCHANGED <<clients, active_client, obj, files, shell_log, cmd_input, pc,
                   data, received, sent, ndispatch, closed_bound, log_closes>>
    /\ UNCHANGED <<ui_pc, srv_vars, gui_vars>>

(* lambda: Log.write(data.decode(errors="ignore")), run for a receive loop. *)
WriteToShellLog ==
    /\ UiLoop
    /\ ui_queue # <<>>
    /\ Head(ui_queue).kind = "write"
    /\ LET c == Head(ui_queue).client IN
        /\ shell_log' = Append(shell_log, OutLine(c, data[c]))
        /\ pc' = [pc EXCEPT ![c] = "log"]
    /\ ui_queue' = Tail(ui_queue)
    /\ UNCHANGED <<clients, active_client, obj, files, list_view, cmd_input,
                   acc_pc, data, received, sent, ndispatch, closed_bound, log_closes>>
    /\ UNCHANGED <<ui_pc, srv_vars, gui_vars>>

(* on_list_view_selected: event.index is the index of an item of the list  *)
(* (from 1 here).                                                          *)
on_list_view_selected(index) ==
    /\ active_client' = clients[index]
    /\ shell_log' = <<Banner(clients[index])>>

Select(index) ==
    /\ UiLoop
    /\ index \in 1..Len(list_view)
    /\ on_list_view_selected(index)
    /\ closed_bound' = FALSE
    /\ UNCHANGED <<clients, obj, files, list_view, cmd_input, ui_queue, acc_pc,
                   pc, data, received, sent, ndispatch, log_closes>>
    /\ UNCHANGED <<ui_pc, srv_vars, gui_vars>>

(* self.active_client.conn.send(cmd.encode()): a closed socket raises; an  *)
(* open one takes the bytes or raises (the peer has reset the connection). *)
SendOk(c, text, bytes) ==
    /\ obj[c].conn_open
    /\ sent' = [sent EXCEPT ![c] = Append(@, [text |-> text, bytes |-> bytes])]

(* A handler that falls back on the first client when none is selected. *)
on_input_submitted_default_first(text) ==
    LET target == IF active_client = None /\ clients # <<>>
                  THEN clients[1] ELSE active_client
        cmd == Strip(text) \o <<NL>>
    IN  IF target = None
        THEN /\ cmd_input' = "text"
             /\ UNCHANGED <<sent, shell_log, ui_pc>>
        ELSE \/ /\ SendOk(target, text, Encode(cmd))
                /\ cmd_input' = ""
                /\ UNCHANGED <<shell_log, ui_pc>>
             \/ /\ shell_log' = Append(shell_log, ErrorLine)
                /\ cmd_input' = "text"
                /\ UNCHANGED <<sent, ui_pc>>

(* on_input_submitted: event.value is text, the value of the input, which *)
(* keeps it unless the handler clears it.  conn.send is called on the UI  *)
(* thread on a blocking socket with no timeout: it returns, raises, or    *)
(* (the peer does not drain its socket and the send buffer is full) has   *)
(* not returned yet.                                                      *)
on_input_submitted(text) ==
    IF active_client = None
    THEN /\ cmd_input' = "text"
         /\ UNCHANGED <<sent, shell_log, ui_pc>>
    ELSE LET cmd == Strip(text) \o <<NL>> IN
         \/ /\ SendOk(active_client, text, Encode(cmd))
            /\ cmd_input' = ""
            /\ UNCHANGED <<shell_log, ui_pc>>
         \/ /\ shell_log' = Append(shell_log, ErrorLine)
            /\ cmd_input' = "text"
            /\ UNCHANGED <<sent, ui_pc>>
         \/ /\ obj[active_client].conn_open
            /\ ui_pc' = AtSend(text)
            /\ cmd_input' = "text"
            /\ UNCHANGED <<sent, shell_log>>

(* A handler that also writes the command to the log of the session. *)
Submit_logged(text) ==
    /\ UiLoop
    /\ ndispatch < MaxDispatch
    /\ EventsLeft
    /\ ndispatch' = ndispatch + 1
    /\ on_input_submitted(text)
    /\ files' = IF active_client = None
                THEN files
                ELSE [files EXCEPT ![LogName(obj[active_client].addr)].bytes =
                                        @ \o Encode(Strip(text) \o <<NL>>)]
    /\ UNCHANGED <<clients, active_client, obj, list_view, ui_queue,
                   acc_pc, pc, data, received, closed_bound, log_closes>>
    /\ UNCHANGED <<srv_vars, gui_vars>>

(* The operator types text into the input and presses Enter:               *)
(* Input.Submitted with event.value = text.                                *)
Submit(text) ==
    /\ UiLoop
    /\ ndispatch < MaxDispatch
    /\ EventsLeft
    /\ ndispatch' = ndispatch + 1
    /\ on_input_submitted(text)
    /\ UNCHANGED <<clients, active_client, obj, files, list_view, ui_queue,
                   acc_pc, pc, data, received, closed_bound, log_closes>>
    /\ UNCHANGED <<srv_vars, gui_vars>>

(* The conn.send that on_input_submitted was waiting in comes back: the    *)
(* peer has read, and the rest of the handler runs, or send raises.        *)
SendReturn ==
    /\ ui_pc.at = "send"
    /\ LET cmd == Strip(ui_pc.text) \o <<NL>> IN
        \/ /\ SendOk(active_client, ui_pc.text, Encode(cmd))
           /\ cmd_input' = ""
           /\ UNCHANGED shell_log
        \/ /\ shell_log' = Append(shell_log, ErrorLine)
           /\ cmd_input' = "text"
           /\ UNCHANGED sent
    /\ ui_pc' = AtLoop
    /\ UNCHANGED <<clients, active_client, obj, files, list_view, ui_queue,
                   acc_pc, pc, data, received, ndispatch, closed_bound,
                   log_closes>>
    /\ UNCHANGED <<srv_vars, gui_vars>>

(* The operator quits the application: ShellApp().run() returns, the main  *)
(* thread ends and the daemon threads (the acceptor, the receive loops)    *)
(* end with the process.  No handler closes a socket or a log file.        *)
Quit ==
    /\ UiLoop
    /\ ui_pc' = AtExit
    /\ UNCHANGED <<clients, active_client, obj, files, list_view, shell_log,
                   cmd_input, ui_queue, acc_pc, pc, data, received, sent,
                   ndispatch, closed_bound, log_closes>>
    /\ UNCHANGED <<srv_vars, gui_vars>>

----------------------------------------------------------------------------
AcceptStep == \E a \in Addrs : Accept(a)
RecvStep == \E c \in DOMAIN pc : Recv(c)
RecvFailStep == \E c \in DOMAIN pc : RecvFail(c)
LogWriteStep == \E c \in DOMAIN pc : LogWrite(c)
LogWriteFailStep == \E c \in DOMAIN pc : LogWriteFail(c)
SelectStep == \E index \in 1..MaxClients : Select(index)
SubmitStep == \E text \in Texts : Submit(text)

Next ==
    \/ Bind
    \/ BindFail
    \/ AcceptStep
    \/ AcceptFail
    \/ StartThread
    \/ RecvStep
    \/ RecvFailStep
    \/ LogWriteStep
    \/ LogWriteFailStep
    \/ AddClientToUi
    \/ WriteToShellLog
    \/ SelectStep
    \/ SubmitStep
    \/ SendReturn
    \/ Quit

Spec == Init /\ [][Next]_vars

(* Scheduling: a started thread and the UI loop keep running; the peers    *)
(* and the operator owe nothing.                                           *)
Fairness ==
    /\ WF_vars(StartThread)
    /\ WF_vars(LogWriteStep \/ LogWriteFailStep)
    /\ WF_vars(AddClientToUi)
    /\ WF_vars(WriteToShellLog)

FairSpec == Init /\ [][Next]_vars /\ Fairness

----------------------------------------------------------------------------
(* The script TCP_server.py: one connection, a receiver thread and a       *)
(* sender thread.                                                          *)

(* A line printed by the script. *)
SrvLine(kind, text) == [kind |-> kind, text |-> text]

(* The main thread, up to the accept, is the whole process: an exception   *)
(* it does not catch ends the process with a traceback.                    *)
SrvRunning == srv_proc = "running"

(* s.bind((host, port)); s.listen(5); print("[+] Listening ...") *)
SrvBind ==
    /\ SrvRunning
    /\ srv_main = "bind"
    /\ srv_main' = "accept"
    /\ srv_stdout' = Append(srv_stdout, SrvLine("listening", <<>>))
    /\ UNCHANGED <<srv_proc, srv_conn, srv_received, srv_sent>>
    /\ UNCHANGED <<app_vars, gui_vars>>

(* s.bind raises at module level. *)
SrvBindFail ==
    /\ SrvRunning
    /\ srv_main = "bind"
    /\ srv_proc' = "crashed"
    /\ UNCHANGED <<srv_main, srv_conn, srv_stdout, srv_received, srv_sent>>
    /\ UNCHANGED <<app_vars, gui_vars>>

(* conn, addr = s.accept(); the prints; both threads started; the main     *)
(* thread sleeps for ever.                                                 *)
SrvAccept ==
    /\ SrvRunning
    /\ srv_main = "accept"
    /\ srv_main' = "sleep"
    /\ srv_conn' = "open"
    /\ srv_stdout' = Append(srv_stdout, SrvLine("accepted", <<>>))
    /\ UNCHANGED <<srv_proc, srv_received, srv_sent>>
    /\ UNCHANGED <<app_vars, gui_vars>>

(* s.accept() raises at module level. *)
SrvAcceptFail ==
    /\ SrvRunning
    /\ srv_main = "accept"
    /\ srv_proc' = "crashed"
    /\ UNCHANGED <<srv_main, srv_conn, srv_stdout, srv_received, srv_sent>>
    /\ UNCHANGED <<app_vars, gui_vars>>

(* except: print("[!] Connection lost. Exiting..."); conn.close();          *)
(* os._exit(0) -- the same in shellreceiver and in shellsender.            *)
SrvExit ==
    /\ srv_stdout' = Append(srv_stdout, SrvLine("lost", <<>>))
    /\ srv_conn' = "closed"
    /\ srv_proc' = "exited"

(* shellreceiver: data = conn.recv(6042); print(data.decode(errors="ignore")) *)
SrvRecv ==
    /\ SrvRunning
    /\ srv_main = "sleep"
    /\ Len(srv_received) < MaxChunks
    /\ LET chunk == Chunk(Len(srv_received) + 1) IN
        /\ srv_received' = Append(srv_received, chunk)
        /\ srv_stdout' = Append(srv_stdout, SrvLine("out", Decode(chunk)))
    /\ UNCHANGED <<srv_main, srv_proc, srv_conn, srv_sent>>
    /\ UNCHANGED <<app_vars, gui_vars>>

(* shellreceiver: recv returns b"" or raises. *)
SrvRecvFail ==
    /\ SrvRunning
    /\ srv_main = "sleep"
    /\ SrvExit
    /\ UNCHANGED <<srv_main, srv_received, srv_sent>>
    /\ UNCHANGED <<app_vars, gui_vars>>

(* shellsender: mycmd = input(""); conn.send((mycmd + "\n").encode()) *)
SrvSend(mycmd) ==
    /\ SrvRunning
    /\ srv_main = "sleep"
    /\ Len(srv_sent) < MaxLines
    /\ srv_sent' = Append(srv_sent, [text |-> mycmd,
                                     bytes |-> Encode(mycmd \o <<NL>>)])
    /\ UNCHANGED <<srv_main, srv_proc, srv_conn, srv_stdout, srv_received>>
    /\ UNCHANGED <<app_vars, gui_vars>>

(* shellsender: input() or conn.send raises. *)
SrvSendFail ==
    /\ SrvRunning
    /\ srv_main = "sleep"
    /\ SrvExit
    /\ UNCHANGED <<srv_main, srv_received, srv_sent>>
    /\ UNCHANGED <<app_vars, gui_vars>>

SrvSendStep == \E mycmd \in Texts : SrvSend(mycmd)

SrvNext ==
    \/ SrvBind
    \/ SrvBindFail
    \/ SrvAccept
    \/ SrvAcceptFail
    \/ SrvRecv
    \/ SrvRecvFail
    \/ SrvSendStep
    \/ SrvSendFail

SpecServer == Init /\ [][SrvNext]_vars

----------------------------------------------------------------------------
(* strong_packer_gui.py: the handlers of the Tk main thread. *)

GuiAlive == root = "alive"

(* main(): MainApplication() finds CONFIG_FILE as it is and Nuitka there   *)
(* or not: load_config, _init_variables, _build_ui, _check_nuitka; then    *)
(* mainloop().                                                             *)
Construct(file, nuitka_ok) ==
    /\ root = "new"
    /\ root' = "alive"
    /\ config_file' = file
    /\ config' = load_config(BuildConfig, file)
    /\ script_var' = config'.script_path
    /\ output_var' = config'.output_dir
    /\ exe_name_var' = config'.exe_name
    /\ data_text' = config'.data_files
    /\ follow_imports_var' = config'.follow_imports
    /\ nofollow_imports_var' = config'.nofollow_imports
    /\ build_btn' = IF nuitka_ok THEN "normal" ELSE "disabled"
    /\ status_var' = IF nuitka_ok THEN "Ready - Found" ELSE "Nuitka not available"
    /\ UNCHANGED <<is_building, stop_btn, messagebox, workers>>
    /\ UNCHANGED <<app_vars, srv_vars>>

(* MainApplication._sync_import_flags, with the two variables as the click *)
(* left them.                                                              *)
sync_import_flags(follow, nofollow, caller) ==
    /\ follow_imports_var' =
        IF follow /\ nofollow /\ HasNofollow(caller) THEN FALSE ELSE follow
    /\ nofollow_imports_var' =
        IF follow /\ nofollow /\ ~HasNofollow(caller) THEN FALSE ELSE nofollow

(* A click on "Follow Imports": Tk flips the variable and calls the        *)
(* command.                                                                *)
ToggleFollow(caller) ==
    /\ GuiAlive
    /\ sync_import_flags(~follow_imports_var, nofollow_imports_var, caller)
    /\ UNCHANGED <<root, config_file, config, script_var, output_var,
                   exe_name_var, data_text, is_building, build_btn, stop_btn,
                   status_var, messagebox, workers>>
    /\ UNCHANGED <<app_vars, srv_vars>>

(* A click on "No Follow Imports". *)
ToggleNofollow(caller) ==
    /\ GuiAlive
    /\ sync_import_flags(follow_imports_var, ~nofollow_imports_var, caller)
    /\ UNCHANGED <<root, config_file, config, script_var, output_var,
                   exe_name_var, data_text, is_building, build_btn, stop_btn,
                   status_var, messagebox, workers>>
    /\ UNCHANGED <<app_vars, srv_vars>>

(* The operator has filled in the entries of the Basic tab with f: what a  *)
(* handler that reads them finds.                                          *)
Entries(f) ==
    /\ script_var' = f.script
    /\ output_var' = f.output
    /\ exe_name_var' = f.exe_name
    /\ data_text' = f.lines

(* MainApplication._update_config_from_ui: the value self.config gets. *)
update_config_from_ui ==
    [config EXCEPT !.script_path = script_var',
                   !.output_dir = output_var',
                   !.exe_name = exe_name_var',
                   !.data_files = DataFiles(data_text'),
                   !.follow_imports = follow_imports_var,
                   !.nofollow_imports = nofollow_imports_var]

(* A handler that starts the thread without the two checks. *)
start_build_unchecked(nuitka_ok) ==
    IF is_building
    THEN UNCHANGED <<config, is_building, build_btn, stop_btn, status_var,
                     messagebox, workers>>
    ELSE /\ config' = update_config_from_ui
         /\ Len(workers) < MaxWorkers
         /\ is_building' = TRUE
         /\ build_btn' = "disabled"
         /\ stop_btn' = "normal"
         /\ status_var' = "Building..."
         /\ workers' = Append(workers, NewWorker)
         /\ UNCHANGED messagebox

(* MainApplication._start_build; nuitka_ok is what check_nuitka finds. *)
start_build(nuitka_ok) ==
    IF is_building
    THEN UNCHANGED <<config, is_building, build_btn, stop_btn, status_var,
                     messagebox, workers>>
    ELSE /\ config' = update_config_from_ui
         /\ IF validate_build_config(config') # "Configuration valid"
            THEN /\ messagebox' = "Configuration Error"
                 /\ UNCHANGED <<is_building, build_btn, stop_btn, status_var,
                                workers>>
            ELSE IF ~nuitka_ok
            THEN /\ messagebox' = "Nuitka Error"
                 /\ UNCHANGED <<is_building, build_btn, stop_btn, status_var,
                                workers>>
            ELSE /\ Len(workers) < MaxWorkers
                 /\ is_building' = TRUE
                 /\ build_btn' = "disabled"
                 /\ stop_btn' = "normal"
                 /\ status_var' = "Building..."
                 /\ workers' = Append(workers, NewWorker)
                 /\ UNCHANGED messagebox

(* A click on the Build button, which takes it when its state is normal,   *)
(* with f in the entries.                                                  *)
StartBuild(f, nuitka_ok) ==
    /\ GuiAlive
    /\ build_btn = "normal"
    /\ Entries(f)
    /\ start_build(nuitka_ok)
    /\ UNCHANGED <<root, config_file, follow_imports_var, nofollow_imports_var>>
    /\ UNCHANGED <<app_vars, srv_vars>>

(* A click on the Stop button: MainApplication._stop_build.  The threads   *)
(* that are running then are marked: Stop was pressed during their build.  *)
StopBuild ==
    /\ GuiAlive
    /\ stop_btn = "normal"
    /\ is_building
    /\ is_building' = FALSE
    /\ workers' = [w \in DOMAIN workers |-> [workers[w] EXCEPT !.stopped = TRUE]]
    /\ UNCHANGED <<root, config_file, config, script_var, output_var,
                   exe_name_var, data_text, follow_imports_var,
                   nofollow_imports_var, build_btn, stop_btn, status_var,
                   messagebox>>
    /\ UNCHANGED <<app_vars, srv_vars>>

(* A click on Save Profile: MainApplication._save_config.  An object whose *)
(* to_dict was set by from_dict cannot be called: the except clause shows  *)
(* the error.                                                              *)
SaveConfig(f) ==
    /\ GuiAlive
    /\ Entries(f)
    /\ config' = update_config_from_ui
    /\ IF "to_dict" \in DOMAIN config'
       THEN /\ messagebox' = "Save Error"
            /\ UNCHANGED config_file
       ELSE /\ config_file' = [exists |-> TRUE, data |-> to_dict(config')]
            /\ messagebox' = "Configuration Saved"
    /\ UNCHANGED <<root, follow_imports_var, nofollow_imports_var, is_building,
                   build_btn, stop_btn, status_var, workers>>
    /\ UNCHANGED <<app_vars, srv_vars>>

(* The window is closed: MainApplication._on_closing; confirm is the       *)
(* answer to askokcancel.  After root.destroy() mainloop returns, main()   *)
(* returns and the process ends, the build thread (a daemon) with it.      *)
on_closing(confirm) ==
    /\ GuiAlive
    /\ IF is_building
       THEN IF confirm
            THEN is_building' = FALSE /\ root' = "destroyed"
            ELSE UNCHANGED <<is_building, root>>
       ELSE root' = "destroyed" /\ UNCHANGED is_building
    /\ UNCHANGED <<config_file, config, script_var, output_var, exe_name_var,
                   data_text, follow_imports_var, nofollow_imports_var,
                   build_btn, stop_btn, status_var, messagebox, workers>>
    /\ UNCHANGED <<app_vars, srv_vars>>

----------------------------------------------------------------------------
(* strong_packer_gui.py: the build thread w (_build_worker) and its Nuitka *)
(* process.                                                                *)

(* What a step of a build thread leaves alone. *)
WorkerOnly ==
    /\ UNCHANGED <<root, config_file, config, script_var, output_var,
                   exe_name_var, data_text, follow_imports_var,
                   nofollow_imports_var, messagebox>>
    /\ UNCHANGED <<app_vars, srv_vars>>

(* cmd = build_command(self.config); mkdir; subprocess.Popen(cmd, ...),    *)
(* which starts the process or raises: except, _build_failed.              *)
WorkerSpawn(w) ==
    /\ GuiAlive
    /\ workers[w].pc = "start"
    /\ \/ workers' = [workers EXCEPT ![w].cmd = build_command(config),
                                     ![w].child = "running",
                                     ![w].pc = "read"]
       \/ workers' = [workers EXCEPT ![w].cmd = build_command(config),
                                     ![w].outcome = "failed",
                                     ![w].pc = "finally"]
    /\ UNCHANGED <<is_building, build_btn, stop_btn, status_var>>
    /\ WorkerOnly

(* for line in process.stdout: the process writes a line; the thread       *)
(* terminates it when is_building is off, and otherwise logs the line (the *)
(* log is not in this model) and reads on.                                 *)
ChildOutput(w) ==
    /\ GuiAlive
    /\ workers[w].pc = "read"
    /\ workers' = IF ~is_building
                  THEN [workers EXCEPT ![w].child = "terminated",
                                       ![w].pc = "wait"]
                  ELSE workers
    /\ UNCHANGED <<is_building, build_btn, stop_btn, status_var>>
    /\ WorkerOnly

(* The process ends by itself with return code rc; its output ends and so  *)
(* does the for loop.                                                      *)
ChildExit(w, rc) ==
    /\ GuiAlive
    /\ workers[w].pc = "read"
    /\ workers' = [workers EXCEPT ![w].child = IF rc = 0 THEN "exit0" ELSE "exit1",
                                  ![w].pc = "wait"]
    /\ UNCHANGED <<is_building, build_btn, stop_btn, status_var>>
    /\ WorkerOnly

(* return_code = process.wait() and the report that follows it. *)
WorkerWait(w) ==
    /\ GuiAlive
    /\ workers[w].pc = "wait"
    /\ workers' = [workers EXCEPT
                    ![w].outcome =
                        IF workers[w].child = "exit0" /\ is_building THEN "success"
                        ELSE IF is_building THEN "failed"
                        ELSE "cancelled",
                    ![w].pc = "finally"]
    /\ UNCHANGED <<is_building, build_btn, stop_btn, status_var>>
    /\ WorkerOnly

(* finally: MainApplication._build_finished runs on the build thread, next *)
(* to the handlers of the main thread.  Its first statements clear         *)
(* is_building and enable the Build button.                                *)
build_finished_enable ==
    /\ is_building' = FALSE
    /\ build_btn' = "normal"

(* The statements that follow: the Stop button, the progress bar (not in   *)
(* this model) and the status.                                             *)
build_finished_rest ==
    /\ stop_btn' = "disabled"
    /\ status_var' = "Ready"

(* The build threads but w. *)
Ended(w) ==
    [k \in 1..(Len(workers) - 1) |-> IF k < w THEN workers[k] ELSE workers[k + 1]]

(* A build thread inside _build_finished: its process has ended and its    *)
(* locals (cmd, process, return_code) are read no more.                    *)
InCleanup == [NewWorker EXCEPT !.pc = "cleanup"]

(* The thread enters _build_finished. *)
WorkerFinally(w) ==
    /\ GuiAlive
    /\ workers[w].pc = "finally"
    /\ build_finished_enable
    /\ workers' = [workers EXCEPT ![w] = InCleanup]
    /\ UNCHANGED <<stop_btn, status_var>>
    /\ WorkerOnly

(* The thread runs the rest of _build_finished and ends. *)
WorkerCleanup(w) ==
    /\ GuiAlive
    /\ workers[w].pc = "cleanup"
    /\ build_finished_rest
    /\ workers' = Ended(w)
    /\ UNCHANGED <<is_building, build_btn>>
    /\ WorkerOnly

----------------------------------------------------------------------------
ConstructStep == \E file \in ConfigFiles, nuitka_ok \in BOOLEAN : Construct(file, nuitka_ok)
ToggleFollowStep == \E caller \in Widgets : ToggleFollow(caller)
ToggleNofollowStep == \E caller \in Widgets : ToggleNofollow(caller)
StartBuildStep == \E f \in Forms, nuitka_ok \in BOOLEAN : StartBuild(f, nuitka_ok)
SaveConfigStep == \E f \in Forms : SaveConfig(f)
ClosingStep == \E confirm \in BOOLEAN : on_closing(confirm)
WorkerSpawnStep == \E w \in DOMAIN workers : WorkerSpawn(w)
ChildOutputStep == \E w \in DOMAIN workers : ChildOutput(w)
ChildExitStep == \E w \in DOMAIN workers, rc \in {0, 1} : ChildExit(w, rc)
WorkerWaitStep == \E w \in DOMAIN workers : WorkerWait(w)
WorkerFinallyStep == \E w \in DOMAIN workers : WorkerFinally(w)
WorkerCleanupStep == \E w \in DOMAIN workers : WorkerCleanup(w)

GuiNext ==
    \/ ConstructStep
    \/ ToggleFollowStep
    \/ ToggleNofollowStep
    \/ StartBuildStep
    \/ StopBuild
    \/ ClosingStep
    \/ WorkerSpawnStep
    \/ ChildOutputStep
    \/ ChildExitStep
    \/ WorkerWaitStep
    \/ WorkerFinallyStep
    \/ WorkerCleanupStep

(* The application as a builder: every handler but Save Profile, which    *)
(* writes CONFIG_FILE, a file that this run of the application never reads *)
(* again.                                                                  *)
SpecGui == Init /\ [][GuiNext]_vars

(* The application as the keeper of its settings: it starts, the operator  *)
(* sets the import flags and saves the profile, and closes it.             *)
GuiConfigNext ==
    \/ ConstructStep
    \/ ToggleFollowStep
    \/ ToggleNofollowStep
    \/ SaveConfigStep
    \/ ClosingStep

SpecGuiConfig == Init /\ [][GuiConfigNext]_vars

(* Scheduling: a build thread that can run does run.  The Nuitka process   *)
(* and the operator owe nothing.                                           *)
FairnessGui ==
    /\ WF_vars(WorkerSpawnStep)
    /\ WF_vars(WorkerWaitStep)
    /\ WF_vars(WorkerFinallyStep)
    /\ WF_vars(WorkerCleanupStep)

FairSpecGui == Init /\ [][GuiNext]_vars /\ FairnessGui

(* Scheduling with a Nuitka process that always writes or ends. *)
FairSpecGuiChild ==
    Init /\ [][GuiNext]_vars /\ FairnessGui
         /\ WF_vars(ChildOutputStep \/ ChildExitStep)

----------------------------------------------------------------------------
(* Properties. *)

(* The log sink of session c: the file its log_file was opened on. *)
LogOf(c) == files[LogName(obj[c].addr)].bytes

(* The output lines of session c on the display, in display order. *)
Shown(c) ==
    SelectSeq(shell_log, LAMBDA line : line.kind = "out" /\ line.src = c)

(* Session c is between two chunks: not in the middle of handling one. *)
Idle(c) == pc[c] = "recv"

(* sub occurs in seq as a run of consecutive elements. *)
Occurs(sub, seq) ==
    \E i \in 0..(Len(seq) - Len(sub)) : SubSeq(seq, i + 1, i + Len(sub)) = sub

(* A step that handles an Input.Submitted event. *)
DispatchStep == ndispatch' # ndispatch

(* C1: whenever a session is between two chunks, its log sink holds       *)
(* exactly the concatenation of the chunks received on its connection, in *)
(* receipt order.                                                         *)
C1_LogIsConcatenation ==
    \A c \in DOMAIN obj : Idle(c) => LogOf(c) = Concat(received[c])

(* C2: every chunk a session has finished handling is in its log sink,    *)
(* also when the session was not the selection when the chunk came.       *)
C2_LoggedUnconditionally ==
    \A c \in DOMAIN obj : \A i \in DOMAIN received[c] :
        (i < Len(received[c]) \/ Idle(c)) => Occurs(received[c][i], LogOf(c))

(* C3: every output line on the display comes from the session that is    *)
(* selected now (a select clears the display).                            *)
C3_DisplayOnlySelected ==
    \A i \in DOMAIN shell_log :
        shell_log[i].kind = "out" => shell_log[i].src = active_client

(* C4: once the bound session has closed, with no select since, a         *)
(* dispatch attempts no write: nothing is sent and no send fails.         *)
C4_NoDispatchToClosed ==
    [][(DispatchStep /\ closed_bound) => UNCHANGED <<sent, shell_log>>]_vars

(* C5: the selection never refers to a session whose connection has been  *)
(* closed.                                                                *)
C5_SelectionNeverClosed ==
    active_client # None => obj[active_client].conn_open

(* C6: a select of a closed session leaves the selection as it was: the   *)
(* selection changes only to a session whose connection is open.          *)
C6_SelectClosedIsNoOp ==
    [][active_client' # active_client => obj'[active_client'].conn_open]_vars

(* The contiguous pieces of text. *)
Pieces(text) ==
    {SubSeq(text, i, j) : i \in 1..(Len(text) + 1), j \in 0..Len(text)}

(* body is text without its leading and trailing whitespace. *)
IsStripOf(body, text) ==
    \E i \in 1..(Len(text) + 1) : \E j \in 0..Len(text) :
        /\ body = SubSeq(text, i, j)
        /\ \A k \in 1..(i - 1) : IsSpace(text[k])
        /\ \A k \in (j + 1)..Len(text) : IsSpace(text[k])
        /\ body # <<>> => ~IsSpace(body[1]) /\ ~IsSpace(body[Len(body)])

C9_WriteFailureTearsDown ==
    [][shell_log' = Append(shell_log, ErrorLine) =>
        /\ active_client' = None
        /\ ~obj'[active_client].conn_open
        /\ ~obj'[active_client].log_open]_vars

(* Session c is listed in the registry. *)
Registered(c) == \E k \in DOMAIN clients : clients[k] = c

(* C10: a session whose receive loop has ended is eventually no longer in  *)
(* the registry.                                                           *)
C10_ClosedEventuallyRemoved ==
    \A c \in Ids : (c \in DOMAIN pc /\ pc[c] = "done") ~> ~Registered(c)

(* C11: the log sink of a session is closed once when its loop ends, on    *)
(* every path, never before and never again; and every write to a log     *)
(* file is made by a session whose sink is open.                          *)
C11_SinkClosedOnce ==
    /\ [](\A c \in DOMAIN pc :
            /\ log_closes[c] = (IF pc[c] = "done" THEN 1 ELSE 0)
            /\ obj[c].log_open = (pc[c] # "done"))
    /\ [][\A f \in FileNames :
            files'[f].bytes # files[f].bytes =>
                \E c \in DOMAIN pc :
                    /\ pc[c] = "log"
                    /\ pc'[c] = "recv"
                    /\ LogName(obj[c].addr) = f
                    /\ obj[c].log_open]_vars

(* C11 witness: a session wrote a chunk to its log, and its loop ended    *)
(* while it handled the next chunk.                                       *)
C11_Witness ==
    \E c \in DOMAIN pc :
        /\ pc[c] = "done"
        /\ log_closes[c] = 1
        /\ Len(received[c]) = 2
        /\ Occurs(received[c][1], LogOf(c))
        /\ ~Occurs(received[c][2], LogOf(c))
        /\ Len(Shown(c)) = 2

(* C12: in TCP_server.py, the failure of the session leaves the process    *)
(* running.                                                               *)
C12_ProcessSurvivesSession ==
    srv_conn = "closed" => srv_proc = "running"

(* C13: a failed accept does not end the acceptor. *)
C13_AcceptorSurvivesAcceptFailure ==
    acc_pc # "accept_failed"

(* C14: once the bind has failed the process is gone: it takes no step. *)
C14_BindFailureIsFatal ==
    [][acc_pc # "bind_failed"]_vars

(* The place of byte b in seq (0 when it is not there). *)
Place(b, seq) ==
    IF \E k \in DOMAIN seq : seq[k] = b
    THEN CHOOSE k \in DOMAIN seq : seq[k] = b /\ \A m \in 1..(k - 1) : seq[m] # b
    ELSE 0

(* C15: of two chunks read on one connection, the one read first comes     *)
(* first in the log (when both are there) and the lines of the session on *)
(* the display are in read order.                                         *)
C15_ReadOrderKept ==
    \A c \in DOMAIN received :
        /\ \A i, j \in DOMAIN received[c] :
            LET pi == Place(received[c][i][1], LogOf(c))
                pj == Place(received[c][j][1], LogOf(c))
            IN  (i < j /\ pi > 0 /\ pj > 0) => pi < pj
        /\ \A p, q \in DOMAIN Shown(c) :
            p < q =>
                \E i, j \in DOMAIN received[c] :
                    /\ i < j
                    /\ Shown(c)[p].text = Decode(received[c][i])
                    /\ Shown(c)[q].text = Decode(received[c][j])

(* C15 witness: two chunks of one session are in its log and on the        *)
(* display.                                                               *)
C15_Witness ==
    \E c \in DOMAIN received :
        /\ Len(received[c]) = 2
        /\ Len(Shown(c)) = 2
        /\ Occurs(received[c][1], LogOf(c))
        /\ Occurs(received[c][2], LogOf(c))

(* C16: the registry lists the sessions in the order of their accepts,     *)
(* and a listed session is whole: its endpoint is set, its log file is    *)
(* there, and until its loop starts its connection and its sink are open. *)
C16_RegistryInAcceptOrder ==
    /\ \A k \in DOMAIN clients : clients[k] = k
    /\ \A k \in DOMAIN clients :
        LET c == clients[k] IN
        /\ c \in DOMAIN obj
        /\ obj[c].addr \in Addrs
        /\ files[LogName(obj[c].addr)].exists
        /\ pc[c] = "new" => obj[c].conn_open /\ obj[c].log_open

(* C16 witness: two sessions are registered, the second not yet started. *)
C16_Witness ==
    /\ Len(clients) = 2
    /\ pc[clients[2]] = "new"
    /\ pc[clients[1]] = "recv"

(* C17: the selection is none or a session that is in the registry. *)
C17_SelectionRegistered ==
    active_client = None \/ \E k \in DOMAIN clients : clients[k] = active_client

(* C17 witness: a session is selected and its loop has ended. *)
C17_Witness ==
    /\ active_client # None
    /\ pc[active_client] = "done"

(* C18: a closed connection stays closed and a closed log sink stays       *)
(* closed.                                                                *)
C18_ClosedStaysClosed ==
    [][\A c \in DOMAIN obj :
        /\ ~obj[c].conn_open => ~obj'[c].conn_open
        /\ ~obj[c].log_open => ~obj'[c].log_open]_vars

(* C18 witness: a session has closed and a later one from the same          *)
(* endpoint is open.                                                       *)
C18_Witness ==
    \E c, d \in DOMAIN obj :
        /\ c < d
        /\ obj[c].addr = obj[d].addr
        /\ ~obj[c].conn_open
        /\ obj[d].conn_open

(* C19: after the read that failed (the connection is closed) the loop     *)
(* reads nothing more on that connection and does not move.               *)
C19_NoReadAfterFailure ==
    [][\A c \in DOMAIN pc :
        ~obj[c].conn_open => received'[c] = received[c] /\ pc'[c] = pc[c]]_vars

(* C19 witness: a session read a chunk, its next read failed, and chunks   *)
(* may still come.                                                        *)
C19_Witness ==
    /\ \E c \in DOMAIN pc :
        /\ pc[c] = "done"
        /\ received[c] # <<>>
    /\ NumChunks < MaxChunks
    /\ EventsLeft

(* C20: a session that is writing a chunk to its log still has its         *)
(* connection open after the write, whether the write went well or not.   *)
C20_SinkFailureKeepsConnection ==
    [][\A c \in DOMAIN pc : pc[c] = "log" => obj'[c].conn_open]_vars


(* The display write of session c is posted and not yet run. *)
Marshalled(c) ==
    \E k \in DOMAIN ui_queue :
        ui_queue[k].kind = "write" /\ ui_queue[k].client = c

(* The callback that lists session d, and with it the start of d's receive *)
(* loop, waits in the queue of the UI behind the display write of another  *)
(* session.                                                                *)
BehindWrite(d) ==
    \E k, m \in DOMAIN ui_queue :
        /\ k < m
        /\ ui_queue[k].kind = "write"
        /\ ui_queue[k].client # d
        /\ ui_queue[m].kind = "add_client"
        /\ ui_queue[m].client = d

(* C21: a display write that the UI has not yet run holds up the session   *)
(* it belongs to and no other: every other registered session with an     *)
(* open connection is in its receive loop, reading or logging, or is held *)
(* up by nothing of another session.                                      *)
C21_NoCrossSessionBlocking ==
    \A d \in DOMAIN pc :
        (Registered(d) /\ obj[d].conn_open /\ ~Marshalled(d)) =>
            (pc[d] \in {"recv", "log"} \/ ~BehindWrite(d))

(* C22: a dispatch that has entered send comes back to the event loop. *)
C22_DispatchReturns ==
    (ui_pc.at = "send") ~> (ui_pc.at = "loop")

(* A step in which no acceptor or receive-loop thread runs code of its own: *)
(* nothing is read, logged, accepted or closed, and a thread moves only as *)
(* the UI releases it from call_from_thread.                               *)
NoWorkerStep ==
    /\ received' = received
    /\ files' = files
    /\ clients' = clients
    /\ obj' = obj
    /\ acc_pc' # acc_pc => ui_queue' = Tail(ui_queue)
    /\ pc' # pc => ui_queue' = Tail(ui_queue)

(* C23: the display log and the session list change only in steps of the   *)
(* UI thread.                                                              *)
C23_UiMutationsOnUiThread ==
    [][(shell_log' # shell_log \/ list_view' # list_view) =>
        (UiLoop \/ ui_pc.at = "send") /\ NoWorkerStep]_vars

(* C23 witness: two sessions are listed, one is selected and a chunk of it *)
(* is on the display.                                                      *)
C23_Witness ==
    /\ Len(list_view) = 2
    /\ active_client # None
    /\ Shown(active_client) # <<>>

(* C24: when the process has ended, every session's connection and log     *)
(* sink are closed.                                                        *)
C24_ShutdownClosesSinks ==
    ui_pc.at = "exited" =>
        \A c \in DOMAIN obj : ~obj[c].conn_open /\ ~obj[c].log_open

(* A step of on_input_submitted: the event is taken, or the send it waited *)
(* in comes back.                                                          *)
DispatchOrReturn ==
    \/ ndispatch' # ndispatch
    \/ \E c \in DOMAIN sent : sent'[c] # sent[c]
    \/ ui_pc.at = "send" /\ ui_pc'.at = "loop"

(* C25: a dispatch, taken or failed, leaves every log file as it was. *)
C25_DispatchLeavesLogs ==
    [][DispatchOrReturn => files' = files]_vars

(* C25 witness: a session has a chunk in its log and has taken a command. *)
C25_Witness ==
    \E c \in DOMAIN obj :
        /\ sent[c] # <<>>
        /\ received[c] # <<>>
        /\ Occurs(received[c][1], LogOf(c))

(* C26: when a session writes a chunk it received to its log, the log      *)
(* file of every other session stays as it was.                            *)
C26_ForeignLogUntouched ==
    [][\A d \in DOMAIN pc :
        (pc[d] = "log" /\ pc'[d] = "recv") =>
            \A c \in DOMAIN obj \ {d} :
                files'[LogName(obj[c].addr)] = files[LogName(obj[c].addr)]]_vars

(* flag is one of the arguments of the command cmd. *)
HasFlag(cmd, flag) == \E k \in DOMAIN cmd : cmd[k] = flag

(* C27: no build command carries both --follow-imports and                 *)
(* --nofollow-imports.                                                     *)
C27_ImportFlagsExclusive ==
    \A w \in DOMAIN workers :
        ~(HasFlag(workers[w].cmd, "--follow-imports")
          /\ HasFlag(workers[w].cmd, "--nofollow-imports"))

(* A configuration with a script that is named, exists and ends in .py, an *)
(* output directory, an executable name, and "=" in every data-file spec.  *)
ClaimedValid(cfg) ==
    /\ cfg.script_path # EmptyPath
    /\ cfg.script_path \in Fs
    /\ cfg.script_path[2] \in {".py", ".PY"}
    /\ cfg.output_dir # ""
    /\ cfg.exe_name # ""
    /\ \A k \in DOMAIN cfg.data_files :
        \E j \in DOMAIN cfg.data_files[k] : cfg.data_files[k][j] = 61

(* C28: a step that starts a build thread starts it for a configuration    *)
(* that is valid, from a state where no build was on; and a click on Build *)
(* with no build on and with an invalid configuration, or with Nuitka      *)
(* missing, shows an error, leaves is_building false and starts nothing.   *)
C28_StartOnlyWhenValid ==
    [][/\ Len(workers') > Len(workers) =>
            /\ ClaimedValid(config')
            /\ ~is_building
            /\ is_building'
       /\ \A f \in Forms, nuitka_ok \in BOOLEAN :
            (/\ ~is_building
             /\ StartBuild(f, nuitka_ok)
             /\ ~nuitka_ok \/ ~ClaimedValid(config')) =>
                /\ messagebox' \in {"Configuration Error", "Nuitka Error"}
                /\ ~is_building'
                /\ workers' = workers]_vars

(* C28 witness: a build has run to its end, and a later click on Build     *)
(* with an invalid configuration was refused.                              *)
C28_Witness ==
    /\ status_var = "Ready"
    /\ messagebox = "Configuration Error"
    /\ ~ClaimedValid(config)
    /\ ~is_building
    /\ workers = <<>>

(* C29: when Stop is pressed while the Nuitka process of a build runs, the *)
(* process eventually runs no more and the build ends as cancelled (unless *)
(* the application is closed first).                                       *)
C29_StopTerminatesChild ==
    (\E w \in DOMAIN workers :
        workers[w].stopped /\ workers[w].child = "running")
    ~> (\/ \E w \in DOMAIN workers :
            workers[w].child # "running" /\ workers[w].outcome = "cancelled"
        \/ root = "destroyed")

(* C30: a build that was started eventually gets to the end of             *)
(* _build_finished: no build thread is left, is_building is false, the     *)
(* Build button is enabled, the Stop button is disabled and the status is  *)
(* Ready.                                                                  *)
C30_BuildReachesFinished ==
    (workers # <<>>)
    ~> (/\ workers = <<>>
        /\ ~is_building
        /\ build_btn = "normal"
        /\ stop_btn = "disabled"
        /\ status_var = "Ready")

(* C31: at most one build thread is alive and at most one Nuitka process   *)
(* runs.                                                                   *)
C31_OneWorker ==
    /\ Len(workers) <= 1
    /\ Cardinality({w \in DOMAIN workers : workers[w].child = "running"}) <= 1

(* C32: the session list is a prefix of the registry, item i carries the   *)
(* label of registry entry i, and a selection binds the registry entry at  *)
(* the index of an item of the list.                                       *)
C32_ListMatchesRegistry ==
    /\ [](/\ Len(list_view) <= Len(clients)
          /\ \A i \in DOMAIN list_view :
                list_view[i] = <<obj[clients[i]].addr[1], ":", obj[clients[i]].addr[2]>>)
    /\ [][active_client' # active_client =>
            \E i \in DOMAIN list_view :
                /\ i \in DOMAIN clients
                /\ active_client' = clients[i]]_vars

(* C32 witness: a second session is in the registry and not yet in the     *)
(* list, the first is listed and selected, and the two have different      *)
(* endpoints.                                                              *)
C32_Witness ==
    /\ Len(clients) = 2
    /\ Len(list_view) = 1
    /\ active_client = clients[1]
    /\ obj[clients[1]].addr # obj[clients[2]].addr

(* C33: a configuration comes back from to_dict and from_dict as it was,   *)
(* and it holds the attributes of a BuildConfig and no other: a key of the *)
(* file that is not one of them is left out.                               *)
C33_ConfigRoundTrip ==
    /\ from_dict(BuildConfig, to_dict(config)) = config
    /\ DOMAIN config = DOMAIN BuildConfig

=============================================================================
